---- MODULE Spec2Model ----
(***************************************************************************)
(* Medication reminder bot: the JSON record store (database.js), the       *)
(* webhook handler (lineBot.js), the cron-per-slot reminder engine         *)
(* (scheduler.js) and the tick-based scheduler kept in lineBot.js, as one  *)
(* state machine.                                                          *)
(*                                                                         *)
(* Time is an absolute minute count in Asia/Taipei local time; the clock   *)
(* moves between the instants of interest of a day.  A handler runs to     *)
(* completion up to its next await, so every action below is one such      *)
(* synchronous stretch of code.                                            *)
(***************************************************************************)
EXTENDS Integers, Sequences, FiniteSets, TLC

VARIABLES
  users,           \* data.users
  schedules,       \* data.schedules
  medicationLogs,  \* data.medicationLogs
  clock,           \* the current instant
  fired,           \* the cron jobs that already ran at this instant
  eng,             \* the engine run in flight: its position and local variables
  obs,             \* per record: what the dispatch port and the engine were asked
  buttons,         \* the postback buttons of the reminders that were delivered
  last             \* the operation that produced this state

vars == <<users, schedules, medicationLogs, clock, fired, eng, obs, buttons, last>>

----------------------------------------------------------------------------
(* Bounds of the model *)

\* the store never holds more schedule rows than this (4 rows per setup)
MaxSchedules == 4
\* the handler stops sending exceeded notices for a record after this many
MaxNotices == 2
\* schedule rows in the runs that repeat the setup (two setups)
MaxSetupSchedules == 8
\* schedule ids asked of /trigger-reminder: the first slot of each setup
PushScheduleIds == {1, 5}

----------------------------------------------------------------------------
(* Program constants *)

\* scheduler.js: if (retryCount >= 3)
MaxRetry == 3
\* minutes in a day, and the offset of Asia/Taipei from UTC in minutes
DayMinutes == 24 * 60
TaipeiOffset == 8 * 60
\* JS null / undefined for ids, timestamps and optional arguments
Null == 0 - 1
Undefined == 0 - 2

LineIds == {"U1", "U2"}

\* meal_type strings: '早餐後（西藥）', '早餐後（中藥）', '午餐後', '晚餐後'
BreakfastWestern == "breakfast_western"
BreakfastChinese == "breakfast_chinese"
Lunch == "lunch"
Dinner == "dinner"

\* a cron table whose second lunch trigger comes a quarter of an hour early
CronTimesQuarter(mealType) ==
  CASE mealType = BreakfastWestern -> {480, 510, 540, 570}
    [] mealType = BreakfastChinese -> {541, 571, 601, 631}
    [] mealType = Lunch -> {780, 795, 840, 870, 975}
    [] mealType = Dinner -> {1140, 1170, 1200, 1230}
    [] OTHER -> {}

\* the cron expressions of start(): minute of day of every trigger of a slot
CronTimes(mealType) ==
  CASE mealType = BreakfastWestern -> {480, 510, 540, 570}
    [] mealType = BreakfastChinese -> {541, 571, 601, 631}
    [] mealType = Lunch -> {780, 810, 840, 870, 975}
    [] mealType = Dinner -> {1140, 1170, 1200, 1230}
    [] OTHER -> {}

----------------------------------------------------------------------------
(* Clock / calendar *)

MinuteOfDay(t) == t % DayMinutes

\* getTaiwanDateString(): the calendar day in Asia/Taipei
getTaiwanDateString(t) == t \div DayMinutes

\* new Date().toISOString().split('T')[0]: the calendar day in UTC
utcDateString(t) == (t - TaipeiOffset) \div DayMinutes

----------------------------------------------------------------------------
(* database.js *)

getUserByLineId(us, lineUserId) ==
  LET hits == {k \in 1..Len(us) : us[k].line_user_id = lineUserId}
  IN IF hits = {} THEN Null ELSE CHOOSE k \in hits : \A j \in hits : k <= j

\* createUser: find-or-create on line_user_id; the new id stands for the uuid
createUser(us, lineUserId) ==
  IF getUserByLineId(us, lineUserId) # Null THEN us
  ELSE Append(us, [id |-> Len(us) + 1, line_user_id |-> lineUserId])

\* createSchedule: always appends a new row
createSchedule(ss, userId, mealType, defaultTime, isSecondDose, linkedScheduleId) ==
  Append(ss, [id |-> Len(ss) + 1, user_id |-> userId, meal_type |-> mealType,
              default_time |-> defaultTime, is_second_dose |-> isSecondDose,
              linked_schedule_id |-> linkedScheduleId,
              link_delay_minutes |-> 60])

getSchedulesByUserId(ss, userId) ==
  SelectSeq(ss, LAMBDA s : s.user_id = userId)

getScheduleById(ss, scheduleId) ==
  LET hits == {k \in 1..Len(ss) : ss[k].id = scheduleId}
  IN IF hits = {} THEN Null ELSE CHOOSE k \in hits : \A j \in hits : k <= j

\* a lookup that compares the record's own id with the schedule id
getMedicationLogByIdAndDate(logs, scheduleId, date) ==
  LET hits == {k \in 1..Len(logs) :
                 logs[k].id = scheduleId /\ logs[k].date = date}
  IN IF hits = {} THEN Null ELSE CHOOSE k \in hits : \A j \in hits : k <= j

\* index of the first record of (schedule, date), or Null
getMedicationLogByScheduleAndDate(logs, scheduleId, date) ==
  LET hits == {k \in 1..Len(logs) :
                 logs[k].schedule_id = scheduleId /\ logs[k].date = date}
  IN IF hits = {} THEN Null ELSE CHOOSE k \in hits : \A j \in hits : k <= j

\* createMedicationLog: find-or-create on (schedule_id, date)
createMedicationLog(logs, scheduleId, userId, date) ==
  IF getMedicationLogByScheduleAndDate(logs, scheduleId, date) # Null THEN logs
  ELSE Append(logs, [id |-> Len(logs) + 1, schedule_id |-> scheduleId,
                     user_id |-> userId, date |-> date, status |-> "PENDING",
                     retry_count |-> 0, last_reminded_at |-> Null,
                     taken_at |-> Null])

\* updateMedicationLogStatus(logId, status, {takenAt, retryCount, lastRemindedAt})
updateMedicationLogStatus(logs, logId, status, takenAt, retryCount, lastRemindedAt) ==
  IF logId \notin 1..Len(logs) THEN logs
  ELSE [logs EXCEPT ![logId] =
          [@ EXCEPT !.status = status,
                    !.taken_at = IF status = "TAKEN" /\ takenAt # Undefined
                                 THEN takenAt ELSE @,
                    !.retry_count = IF retryCount # Undefined
                                    THEN retryCount ELSE @,
                    !.last_reminded_at = IF lastRemindedAt # Undefined
                                         THEN lastRemindedAt ELSE @]]

\* getPendingLogsForDate: copies of the day's PENDING and SNOOZED records
getPendingLogsForDate(logs, date) ==
  SelectSeq(logs, LAMBDA log :
    log.date = date /\ log.status \in {"PENDING", "SNOOZED"})

----------------------------------------------------------------------------
(* lineBot.js: setupDefaultSchedules *)

\* the four createSchedule calls; the second dose links to the first
setupSchedules(ss, userId) ==
  LET s1 == createSchedule(ss, userId, BreakfastWestern, 480, FALSE, Null)
      s2 == createSchedule(s1, userId, BreakfastChinese, 540, TRUE, Len(s1))
      s3 == createSchedule(s2, userId, Lunch, 780, FALSE, Null)
  IN createSchedule(s3, userId, Dinner, 1140, FALSE, Null)

\* the four createMedicationLog calls, dated with the UTC calendar day
setupLogs(logs, ss, userId, t) ==
  LET today == utcDateString(t)
      n == Len(ss)
      l1 == createMedicationLog(logs, n - 3, userId, today)
      l2 == createMedicationLog(l1, n - 2, userId, today)
      l3 == createMedicationLog(l2, n - 1, userId, today)
  IN createMedicationLog(l3, n, userId, today)

----------------------------------------------------------------------------
(* Observation of the dispatch port *)

MaxLogs == 3 * MaxSchedules

NoObs == [reminders |-> 0, notices |-> 0, evals |-> 0,
          acted |-> FALSE, ackd |-> FALSE, raced |-> FALSE,
          sentAt |-> Null, snoozedAt |-> Null]

Idle == [pc |-> "idle", mealType |-> "", today |-> 0, i |-> 0,
         logId |-> Null, retryCount |-> 0, pending |-> << >>]

Op(name, logId, reported) == [op |-> name, log |-> logId, reported |-> reported]

----------------------------------------------------------------------------
(* scheduler.js: sendReminderForMealType *)

\* schedules.find(s => s.meal_type === mealType) among the user's schedules
findSchedule(ss, userId, mealType) ==
  LET hits == {k \in 1..Len(ss) :
                 ss[k].user_id = userId /\ ss[k].meal_type = mealType}
  IN IF hits = {} THEN Null ELSE CHOOSE k \in hits : \A j \in hits : k <= j

\* the record the loop body reads for users[i], or Null when it continues early
logOfUser(us, ss, logs, mealType, today, i) ==
  LET s == findSchedule(ss, us[i].id, mealType)
  IN IF s = Null THEN Null
     ELSE getMedicationLogByScheduleAndDate(logs, ss[s].id, today)

\* a status test that lets an acknowledged record through
skipsMissedOnly(status) == status = "MISSED"

\* if (log.status === 'TAKEN') continue; if (log.status === 'MISSED') continue;
skipsStatus(status) == status = "TAKEN" \/ status = "MISSED"

\* the ceiling test moved by one: a fourth reminder before the record is MISSED
exceedsMaxRetryStrictly(retryCount) == retryCount > MaxRetry

\* if (retryCount >= 3)
exceedsMaxRetry(retryCount) == retryCount >= MaxRetry

\* what the loop body does for the record l it read: one of the two awaits,
\* or "continue" when it goes on to the next user without one
bodyOutcome(logs, l) ==
  IF l = Null THEN "continue"
  ELSE IF skipsStatus(logs[l].status) THEN "continue"
  ELSE IF exceedsMaxRetry(logs[l].retry_count)
       THEN IF logs[l].status # "MISSED" THEN "notice" ELSE "continue"
       ELSE "reminder"

\* the first user at or after i whose iteration reaches an await, or Null
RECURSIVE scanUsers(_, _, _, _, _, _)
scanUsers(us, ss, logs, mealType, today, i) ==
  IF i > Len(us) THEN Null
  ELSE IF bodyOutcome(logs, logOfUser(us, ss, logs, mealType, today, i)) # "continue"
       THEN i
       ELSE scanUsers(us, ss, logs, mealType, today, i + 1)

\* the records evaluated by the iterations from..to of the loop
evaluated(us, ss, logs, mealType, today, from, to) ==
  {logOfUser(us, ss, logs, mealType, today, k) : k \in from..to} \ {Null}

\* a write-back that stores the count as it was read
newRetryCountUnchanged(retryCount) == retryCount

\* the value the engine writes back after the awaited dispatch
newRetryCount(retryCount) == retryCount + 1

\* the for loop from users[i] up to its next await: the state it leaves
runLoop(logs, o, mealType, today, i) ==
  LET j == scanUsers(users, schedules, logs, mealType, today, i)
      stop == IF j = Null THEN Len(users) ELSE j
      seen == evaluated(users, schedules, logs, mealType, today, i, stop)
      o1 == [k \in DOMAIN o |->
               IF k \in seen THEN [o[k] EXCEPT !.evals = @ + 1] ELSE o[k]]
      l == IF j = Null THEN Null
           ELSE logOfUser(users, schedules, logs, mealType, today, j)
      retryCount == IF l = Null THEN 0 ELSE logs[l].retry_count
  IN IF j = Null
     THEN [logs |-> logs, obs |-> o1, eng |-> Idle]
     ELSE IF bodyOutcome(logs, l) = "notice"
     THEN [logs |-> updateMedicationLogStatus(logs, l, "MISSED",
                                              Undefined, Undefined, clock),
           obs |-> [o1 EXCEPT ![l].notices = @ + 1],
           eng |-> [pc |-> "awaitNotice", mealType |-> mealType,
                    today |-> today, i |-> j, logId |-> l,
                    retryCount |-> retryCount, pending |-> << >>]]
     ELSE [logs |-> logs,
           obs |-> [o1 EXCEPT ![l].reminders = @ + 1, ![l].sentAt = clock],
           eng |-> [pc |-> "awaitReminder", mealType |-> mealType,
                    today |-> today, i |-> j, logId |-> l,
                    retryCount |-> retryCount, pending |-> << >>]]

\* a cron job of start() fires: the run up to its first await
Trigger(mealType) ==
  /\ eng.pc = "idle"
  /\ MinuteOfDay(clock) \in CronTimes(mealType)
  /\ mealType \notin fired
  /\ fired' = fired \cup {mealType}
  /\ LET r == runLoop(medicationLogs, obs, mealType,
                      getTaiwanDateString(clock), 1)
     IN /\ medicationLogs' = r.logs
        /\ obs' = r.obs
        /\ eng' = r.eng
  /\ last' = Op("trigger", Null, 0)
  /\ UNCHANGED <<users, schedules, clock, buttons>>

\* a write-back that is given up when the dispatch failed
writeBackUnlessFailed(logs, ok, logId, retryCount, t) ==
  IF ok
  THEN updateMedicationLogStatus(logs, logId, "SNOOZED", Undefined,
                                 newRetryCount(retryCount), t)
  ELSE logs

\* the update after await sendReminderMessage; the returned boolean is not read
writeBack(logs, ok, logId, retryCount, t) ==
  updateMedicationLogStatus(logs, logId, "SNOOZED", Undefined,
                            newRetryCount(retryCount), t)

\* a loop that gives the run up when a dispatch failed
nextUserUnlessFailed(ok, i) == IF ok THEN i + 1 ELSE Len(users) + 1

\* for (const user of users): the iteration after the one of users[i],
\* whatever the awaited dispatch returned (sendReminderMessage never throws)
nextUser(ok, i) == i + 1

\* await sendReminderMessage returns (ok or not): write back, go on with the loop
ResumeReminder(ok) ==
  /\ eng.pc = "awaitReminder"
  /\ LET written == writeBack(medicationLogs, ok, eng.logId, eng.retryCount, clock)
         r == runLoop(written, obs, eng.mealType, eng.today, nextUser(ok, eng.i))
     IN /\ medicationLogs' = r.logs
        /\ obs' = r.obs
        /\ eng' = r.eng
  /\ buttons' = IF ok
                THEN buttons \cup {[to |-> users[eng.i].line_user_id,
                    scheduleId |-> medicationLogs[eng.logId].schedule_id,
                    retryCount |-> eng.retryCount]}
                ELSE buttons
  /\ last' = Op(IF ok THEN "resume" ELSE "resumeFailed", eng.logId, eng.retryCount)
  /\ UNCHANGED <<users, schedules, clock, fired>>

\* await sendTextMessage of the exceeded notice returns: go on with the loop
ResumeNotice ==
  /\ eng.pc = "awaitNotice"
  /\ LET r == runLoop(medicationLogs, obs, eng.mealType, eng.today, eng.i + 1)
     IN /\ medicationLogs' = r.logs
        /\ obs' = r.obs
        /\ eng' = r.eng
  /\ last' = Op("resumeNotice", eng.logId, eng.retryCount)
  /\ UNCHANGED <<users, schedules, clock, fired, buttons>>

----------------------------------------------------------------------------
(* scheduler.js: initDailySchedule *)

\* the schedules in the order the two nested loops visit them
RECURSIVE visitOrder(_, _, _)
visitOrder(us, ss, i) ==
  IF i > Len(us) THEN << >>
  ELSE getSchedulesByUserId(ss, us[i].id) \o visitOrder(us, ss, i + 1)

\* find the day's record of each visited schedule, create it when absent
RECURSIVE createMissingLogs(_, _, _)
createMissingLogs(logs, visit, today) ==
  IF visit = << >> THEN logs
  ELSE LET schedule == Head(visit)
           existingLog == getMedicationLogByScheduleAndDate(logs, schedule.id, today)
           logs1 == IF existingLog = Null
                    THEN createMedicationLog(logs, schedule.id, schedule.user_id, today)
                    ELSE logs
       IN createMissingLogs(logs1, Tail(visit), today)

\* the 00:00 cron job, and the call at the end of start() when the process starts
initDailySchedule ==
  /\ eng.pc = "idle"
  /\ medicationLogs' = createMissingLogs(medicationLogs,
                         visitOrder(users, schedules, 1),
                         getTaiwanDateString(clock))
  /\ Len(medicationLogs') <= MaxLogs
  /\ last' = Op("init", Null, 0)
  /\ UNCHANGED <<users, schedules, clock, fired, eng, obs, buttons>>

----------------------------------------------------------------------------
(* index.js: POST /setup-user *)

SetupUserUpTo(u, maxSchedules) ==
  /\ Len(schedules) + 4 <= maxSchedules
  /\ LET us1 == createUser(users, u)
         user == us1[getUserByLineId(us1, u)]
         ss1 == setupSchedules(schedules, user.id)
     IN /\ users' = us1
        /\ schedules' = ss1
        /\ medicationLogs' = setupLogs(medicationLogs, ss1, user.id, clock)
  /\ last' = Op("setup", Null, 0)
  /\ UNCHANGED <<clock, fired, eng, obs, buttons>>

SetupUser(u) == SetupUserUpTo(u, MaxSchedules)

----------------------------------------------------------------------------
(* index.js: POST /trigger-reminder *)

\* the reminder of an existing schedule is pushed to any LINE user, with
\* retryCount 0 on its buttons; the store is not touched
TriggerReminder(u, scheduleId) ==
  /\ getScheduleById(schedules, scheduleId) # Null
  /\ buttons' = buttons \cup
                  {[to |-> u, scheduleId |-> scheduleId, retryCount |-> 0]}
  /\ last' = Op("push", Null, 0)
  /\ UNCHANGED <<users, schedules, medicationLogs, clock, fired, eng, obs>>

----------------------------------------------------------------------------
(* lineBot.js: handleWebhookEvent, the text message branch *)

\* a text message of a user the store does not know: the user is created and
\* set up before the command is looked at (the command '設定提醒' then runs
\* setupDefaultSchedules once more, which is SetupUserUpTo for a known user)
TextFirstContact(u, maxSchedules) ==
  /\ getUserByLineId(users, u) = Null
  /\ Len(schedules) + 4 <= maxSchedules
  /\ LET us1 == createUser(users, u)
         user == us1[getUserByLineId(us1, u)]
         ss1 == setupSchedules(schedules, user.id)
     IN /\ users' = us1
        /\ schedules' = ss1
        /\ medicationLogs' = setupLogs(medicationLogs, ss1, user.id, clock)
  /\ last' = Op("text", Null, 0)
  /\ UNCHANGED <<clock, fired, eng, obs, buttons>>

----------------------------------------------------------------------------
(* lineBot.js: handleWebhookEvent, the postback branch *)

\* the state the handler leaves for event {action, scheduleId, retryCount} of u
postbackResult(u, action, scheduleId, retryCount) ==
  LET known == getUserByLineId(users, u) # Null
      us1 == createUser(users, u)
      user == us1[getUserByLineId(us1, u)]
      ss1 == IF known THEN schedules ELSE setupSchedules(schedules, user.id)
      logs1 == IF known THEN medicationLogs
               ELSE setupLogs(medicationLogs, ss1, user.id, clock)
      today == utcDateString(clock)
      log == getMedicationLogByScheduleAndDate(logs1, scheduleId, today)
      snoozeCount == retryCount + 1
      snoozed == updateMedicationLogStatus(logs1, log, "SNOOZED",
                                           Undefined, snoozeCount, clock)
  IN [users |-> us1, schedules |-> ss1, log |-> log,
      exceeded |-> action = "snooze" /\ log # Null /\ ~(snoozeCount < MaxRetry),
      logs |-> IF log = Null THEN logs1
               ELSE IF action = "taken"
               THEN updateMedicationLogStatus(logs1, log, "TAKEN",
                                              clock, retryCount, Undefined)
               ELSE IF snoozeCount < MaxRetry THEN snoozed
               ELSE updateMedicationLogStatus(snoozed, log, "MISSED",
                                              Undefined, snoozeCount, clock)]

\* what the observer notes about a user action on record log
noteAction(o, action, log, exceeded) ==
  IF log = Null THEN o
  ELSE [o EXCEPT
          ![log].acted = TRUE,
          ![log].notices = IF exceeded THEN @ + 1 ELSE @,
          ![log].snoozedAt = IF action = "snooze" THEN clock ELSE @,
          ![log].ackd = action = "taken"
                        /\ medicationLogs[log].status \in {"PENDING", "SNOOZED"},
          ![log].raced = action = "taken"
                         /\ (@ \/ (eng.pc = "awaitReminder" /\ eng.logId = log))]

\* the user presses a button of a delivered reminder
PostbackUpTo(action, maxSchedules) ==
  \E b \in buttons :
    LET r == postbackResult(b.to, action, b.scheduleId, b.retryCount)
    IN /\ Len(r.schedules) <= maxSchedules
       /\ r.exceeded => obs[r.log].notices < MaxNotices
       /\ users' = r.users
       /\ schedules' = r.schedules
       /\ medicationLogs' = r.logs
       /\ obs' = noteAction(obs, action, r.log, r.exceeded)
       /\ last' = Op(action, r.log, b.retryCount)
       /\ UNCHANGED <<clock, fired, eng, buttons>>

Postback(action) == PostbackUpTo(action, MaxSchedules)

----------------------------------------------------------------------------
(* The clock *)

\* time passes to the next instant of the day under observation
Tick(instants) ==
  /\ eng.pc = "idle"
  /\ \E t \in instants :
       /\ t > clock
       /\ \A t2 \in instants : t2 > clock => t <= t2
       /\ clock' = t
  /\ fired' = {}
  /\ last' = Op("tick", Null, 0)
  /\ UNCHANGED <<users, schedules, medicationLogs, eng, obs, buttons>>

----------------------------------------------------------------------------
(* lineBot.js, second module of the file: the tick-based scheduler *)

\* minutes without an answer after which checkRetryNeeded reminds again
RetryAfter == 30
\* minutes after the last reminder at which it marks the record MISSED
MissedAfter == 90

\* the process clock is UTC: getTaiwanTime() reads the Taipei wall time as a
\* process-local time, so its toISOString() is this far ahead of new Date()
ServerShift == TaipeiOffset

getTaiwanTime(t) == t + ServerShift

lineIdOf(userId) ==
  users[CHOOSE i \in 1..Len(users) : users[i].id = userId].line_user_id

\* the first dose's record of the day exists and is TAKEN
firstDoseTaken(logs, schedule, today) ==
  LET firstDoseLog == getMedicationLogByScheduleAndDate(
                        logs, schedule.linked_schedule_id, today)
  IN firstDoseLog # Null /\ logs[firstDoseLog].status = "TAKEN"

\* the inner loop body of checkAndSendReminders reaches its await
sendsScheduled(logs, schedule, currentTime, today) ==
  LET log == getMedicationLogByScheduleAndDate(logs, schedule.id, today)
  IN /\ schedule.default_time = currentTime
     /\ log # Null
     /\ logs[log].status \in {"PENDING", "SNOOZED"}
     /\ (schedule.is_second_dose /\ schedule.linked_schedule_id # Null)
          => firstDoseTaken(logs, schedule, today)

\* the first schedule at or after position p of the two nested loops whose
\* body reaches the await, or Null
RECURSIVE scanScheduled(_, _, _, _, _)
scanScheduled(visit, logs, currentTime, today, p) ==
  IF p > Len(visit) THEN Null
  ELSE IF sendsScheduled(logs, visit[p], currentTime, today) THEN p
       ELSE scanScheduled(visit, logs, currentTime, today, p + 1)

\* the nested loops from position p up to the next await
scheduledLoop(logs, o, currentTime, today, p) ==
  LET visit == visitOrder(users, schedules, 1)
      j == scanScheduled(visit, logs, currentTime, today, p)
      l == IF j = Null THEN Null
           ELSE getMedicationLogByScheduleAndDate(logs, visit[j].id, today)
  IN IF j = Null
     THEN [obs |-> o, eng |-> Idle]
     ELSE [obs |-> [o EXCEPT ![l].reminders = @ + 1, ![l].sentAt = clock],
           eng |-> [pc |-> "awaitScheduled", mealType |-> visit[j].meal_type,
                    today |-> today, i |-> j, logId |-> l,
                    retryCount |-> logs[l].retry_count, pending |-> << >>]]

\* the every-minute job: the run up to its first await
checkAndSendReminders ==
  /\ eng.pc = "idle"
  /\ "check" \notin fired
  /\ fired' = fired \cup {"check"}
  /\ LET r == scheduledLoop(medicationLogs, obs, MinuteOfDay(clock),
                            getTaiwanDateString(clock), 1)
     IN /\ obs' = r.obs
        /\ eng' = r.eng
  /\ last' = Op("check", Null, 0)
  /\ UNCHANGED <<users, schedules, medicationLogs, clock, buttons>>

\* await sendReminderMessage returns: the record keeps the status it has now
\* and gets the time; the count is not touched
ResumeScheduled(ok) ==
  /\ eng.pc = "awaitScheduled"
  /\ LET written == updateMedicationLogStatus(medicationLogs, eng.logId,
                       medicationLogs[eng.logId].status, Undefined, Undefined,
                       getTaiwanTime(clock))
         r == scheduledLoop(written, obs, MinuteOfDay(clock), eng.today,
                            eng.i + 1)
     IN /\ medicationLogs' = written
        /\ obs' = r.obs
        /\ eng' = r.eng
  /\ buttons' = IF ok
                THEN buttons \cup
                  {[to |-> lineIdOf(medicationLogs[eng.logId].user_id),
                    scheduleId |-> medicationLogs[eng.logId].schedule_id,
                    retryCount |-> eng.retryCount]}
                ELSE buttons
  /\ last' = Op(IF ok THEN "resumeScheduled" ELSE "resumeScheduledFailed",
                eng.logId, eng.retryCount)
  /\ UNCHANGED <<users, schedules, clock, fired>>

\* what checkRetryNeeded does with log, a copy made when the job started
retryOutcome(log, now) ==
  IF log.last_reminded_at = Null THEN "continue"
  ELSE LET minutesDiff == now - log.last_reminded_at
       IN IF /\ minutesDiff >= RetryAfter
             /\ log.retry_count < MaxRetry
             /\ log.status = "SNOOZED"
             /\ getScheduleById(schedules, log.schedule_id) # Null
          THEN "retry"
          ELSE IF /\ minutesDiff >= MissedAfter
                  /\ log.retry_count >= MaxRetry
                  /\ log.status = "PENDING"
               THEN "missed"
               ELSE "continue"

\* the loop over the copies from position p up to the next await
RECURSIVE retryLoop(_, _, _, _, _)
retryLoop(logs, o, pending, now, p) ==
  IF p > Len(pending) THEN [logs |-> logs, obs |-> o, eng |-> Idle]
  ELSE LET log == pending[p]
           outcome == retryOutcome(log, now)
       IN IF outcome = "retry"
          THEN [logs |-> updateMedicationLogStatus(logs, log.id, "PENDING",
                           Undefined, log.retry_count + 1, now),
                obs |-> [o EXCEPT ![log.id].reminders = @ + 1,
                                  ![log.id].sentAt = clock],
                eng |-> [pc |-> "awaitRetry", mealType |-> "",
                         today |-> log.date, i |-> p, logId |-> log.id,
                         retryCount |-> log.retry_count + 1,
                         pending |-> pending]]
          ELSE IF outcome = "missed"
          THEN retryLoop(updateMedicationLogStatus(logs, log.id, "MISSED",
                           Undefined, Undefined, now),
                         o, pending, now, p + 1)
          ELSE retryLoop(logs, o, pending, now, p + 1)

\* the every-five-minutes job: the run up to its first await
checkRetryNeeded ==
  /\ eng.pc = "idle"
  /\ MinuteOfDay(clock) % 5 = 0
  /\ "retry" \notin fired
  /\ fired' = fired \cup {"retry"}
  /\ LET r == retryLoop(medicationLogs, obs,
                 getPendingLogsForDate(medicationLogs, getTaiwanDateString(clock)),
                 getTaiwanTime(clock), 1)
     IN /\ medicationLogs' = r.logs
        /\ obs' = r.obs
        /\ eng' = r.eng
  /\ last' = Op("retry", Null, 0)
  /\ UNCHANGED <<users, schedules, clock, buttons>>

\* await sendReminderMessage of the retry returns: go on with the copies
ResumeRetry(ok) ==
  /\ eng.pc = "awaitRetry"
  /\ LET r == retryLoop(medicationLogs, obs, eng.pending,
                        getTaiwanTime(clock), eng.i + 1)
     IN /\ medicationLogs' = r.logs
        /\ obs' = r.obs
        /\ eng' = r.eng
  /\ buttons' = IF ok
                THEN buttons \cup
                  {[to |-> lineIdOf(eng.pending[eng.i].user_id),
                    scheduleId |-> eng.pending[eng.i].schedule_id,
                    retryCount |-> eng.retryCount]}
                ELSE buttons
  /\ last' = Op(IF ok THEN "resumeRetry" ELSE "resumeRetryFailed",
                eng.logId, eng.retryCount)
  /\ UNCHANGED <<users, schedules, clock, fired>>

\* the jobs that node-cron starts at the current instant
LegacyDue ==
  {"check"} \cup (IF MinuteOfDay(clock) % 5 = 0 THEN {"retry"} ELSE {})

\* time passes once the jobs of the current instant have run
TickDue(instants) ==
  /\ LegacyDue \subseteq fired
  /\ Tick(instants)

----------------------------------------------------------------------------
(* The program after construction: an empty store, no job running *)

InitAt(t) ==
  /\ users = << >>
  /\ schedules = << >>
  /\ medicationLogs = << >>
  /\ clock = t
  /\ fired = {}
  /\ eng = Idle
  /\ obs = [k \in 1..MaxLogs |-> NoObs]
  /\ buttons = {}
  /\ last = Op("start", Null, 0)

\* One user, the lunch slot, one day: 07:30 to 16:30 Taipei time
LunchInstants ==
  {DayMinutes + m : m \in {750, 780, 795, 810, 840, 870, 900, 975, 990}}

Init == InitAt(DayMinutes + 450)

Next ==
  \/ SetupUser("U1")
  \/ initDailySchedule
  \/ Trigger(Lunch)
  \/ \E ok \in BOOLEAN : ResumeReminder(ok)
  \/ ResumeNotice
  \/ Postback("taken")
  \/ Postback("snooze")
  \/ Tick(LunchInstants)

Spec == Init /\ [][Next]_vars

\* One user, the two breakfast slots, one morning: 08:00 to 09:01 Taipei time,
\* up to the first trigger of the second dose (no record can reach the fourth
\* evaluation by then, so no exceeded notice is awaited)
BreakfastInstants ==
  {DayMinutes + m : m \in {510, 541}}

InitBreakfast == InitAt(DayMinutes + 480)

NextBreakfast ==
  \/ SetupUser("U1")
  \/ Trigger(BreakfastWestern)
  \/ Trigger(BreakfastChinese)
  \/ \E ok \in BOOLEAN : ResumeReminder(ok)
  \/ Postback("taken")
  \/ Postback("snooze")
  \/ Tick(BreakfastInstants)

SpecBreakfast == InitBreakfast /\ [][NextBreakfast]_vars

\* Two users, setup and first contact only, no cron trigger in the window
NextSetup(instants) ==
  \/ \E u \in LineIds : SetupUserUpTo(u, MaxSetupSchedules)
  \/ \E u \in LineIds : TextFirstContact(u, MaxSetupSchedules)
  \/ \E u \in LineIds, s \in PushScheduleIds : TriggerReminder(u, s)
  \/ PostbackUpTo("taken", MaxSetupSchedules)
  \/ PostbackUpTo("snooze", MaxSetupSchedules)
  \/ initDailySchedule
  \/ Tick(instants)

\* 08:15 to 08:45 Taipei time: the UTC day and the Taipei day agree
InitSetup == InitAt(DayMinutes + 495)

NextSetupDay == NextSetup({DayMinutes + 525})

SpecSetup == InitSetup /\ [][NextSetupDay]_vars

\* 07:30 to 08:15 Taipei time: the UTC day changes at 08:00
InitFirstContact == InitAt(DayMinutes + 450)

NextFirstContact == NextSetup({DayMinutes + 495})

SpecFirstContact == InitFirstContact /\ [][NextFirstContact]_vars

\* One user, the dinner slot, no user action: 18:45 to 21:00 Taipei time.
\* A trigger that the process misses is an instant that passes without it.
DinnerInstants ==
  {DayMinutes + m : m \in {1140, 1170, 1200, 1230, 1260}}

InitDinner == InitAt(DayMinutes + 1125)

NextDinner ==
  \/ SetupUser("U1")
  \/ initDailySchedule
  \/ Trigger(Dinner)
  \/ \E ok \in BOOLEAN : ResumeReminder(ok)
  \/ ResumeNotice
  \/ Tick(DinnerInstants)

SpecDinner == InitDinner /\ [][NextDinner]_vars

\* Two users, the lunch slot, its first two triggers: 12:45 to 13:30 Taipei
\* time (no record can reach the fourth evaluation by then)
TwoUsersInstants == {DayMinutes + m : m \in {780, 810}}

InitTwoUsers == InitAt(DayMinutes + 765)

NextTwoUsers ==
  \/ \E u \in LineIds : SetupUserUpTo(u, MaxSetupSchedules)
  \/ Trigger(Lunch)
  \/ \E ok \in BOOLEAN : ResumeReminder(ok)
  \/ PostbackUpTo("taken", MaxSetupSchedules)
  \/ PostbackUpTo("snooze", MaxSetupSchedules)
  \/ Tick(TwoUsersInstants)

SpecTwoUsers == InitTwoUsers /\ [][NextTwoUsers]_vars

\* The tick-based scheduler in place of the cron-per-slot one: one user, the
\* lunch slot, 12:45 to 16:30 Taipei time
LegacyInstants ==
  {DayMinutes + m : m \in {780, 810, 840, 870, 900, 975, 990}}

InitLegacy == InitAt(DayMinutes + 765)

NextLegacy ==
  \/ SetupUser("U1")
  \/ checkAndSendReminders
  \/ \E ok \in BOOLEAN : ResumeScheduled(ok)
  \/ checkRetryNeeded
  \/ \E ok \in BOOLEAN : ResumeRetry(ok)
  \/ Postback("taken")
  \/ Postback("snooze")
  \/ TickDue(LegacyInstants)

SpecLegacy == InitLegacy /\ [][NextLegacy]_vars

----------------------------------------------------------------------------
(* Properties of the dose state machine, one slot *)

LogIds == 1..Len(medicationLogs)

Terminal(k) == medicationLogs[k].status \in {"TAKEN", "MISSED"}

\* the engine run in flight is between reading record k and writing it back
InFlight(k) == eng.pc = "awaitReminder" /\ eng.logId = k

\* C1: once a record is TAKEN or MISSED, no operation changes its status,
\* retryCount or takenAt.
C1_TerminalAbsorption ==
  [][\A k \in LogIds :
       Terminal(k) =>
         /\ medicationLogs'[k].status = medicationLogs[k].status
         /\ medicationLogs'[k].retry_count = medicationLogs[k].retry_count
         /\ medicationLogs'[k].taken_at = medicationLogs[k].taken_at]_vars

\* C2: the stored retryCount of a record never decreases in a step.
C2_MonotonicRetryCount ==
  [][\A k \in LogIds :
       medicationLogs'[k].retry_count >= medicationLogs[k].retry_count]_vars

\* C3: the engine dispatches at most 3 regular reminders for a record.
C3_AtMostThreeReminders ==
  \A k \in LogIds : obs[k].reminders <= MaxRetry

\* C4: a record without user action: the first three evaluations dispatch one
\* reminder each, the fourth marks it MISSED with exactly one exceeded notice,
\* later evaluations dispatch nothing and send no notice.
C4_RetryCeiling ==
  \A k \in LogIds :
    ~obs[k].acted =>
      LET n == obs[k].evals
      IN /\ obs[k].reminders = (IF n <= MaxRetry THEN n ELSE MaxRetry)
         /\ obs[k].notices = (IF n > MaxRetry THEN 1 ELSE 0)
         /\ (medicationLogs[k].status = "MISSED") = (n > MaxRetry)
         /\ medicationLogs[k].retry_count =
              (IF InFlight(k) THEN obs[k].reminders - 1 ELSE obs[k].reminders)

\* a record without user action that was evaluated five times
C4_Witness ==
  \E k \in LogIds :
    /\ ~obs[k].acted
    /\ obs[k].evals = MaxRetry + 2
    /\ obs[k].reminders = MaxRetry
    /\ obs[k].notices = 1
    /\ medicationLogs[k].status = "MISSED"

\* C5: a 'taken' handled while the engine awaits the dispatch for the same
\* record leaves the record TAKEN once the engine run has finished.
C5_AcknowledgeWinsRace ==
  \A k \in LogIds :
    (obs[k].raced /\ eng.pc = "idle") => medicationLogs[k].status = "TAKEN"

\* C8: takenAt is set exactly when the status is TAKEN.
C8_TakenAtIffTaken ==
  \A k \in LogIds :
    (medicationLogs[k].taken_at # Null) <=> (medicationLogs[k].status = "TAKEN")

\* C9: after a 'taken' on a PENDING or SNOOZED record the record is TAKEN with
\* takenAt the action time, and a trigger that starts afterwards, with no
\* other action on the record in between, dispatches nothing for it and
\* leaves the record as it is.
C9_AcknowledgeShortCircuits ==
  [][/\ \A k \in LogIds :
          (last'.op = "taken" /\ last'.log = k /\ obs'[k].ackd) =>
            /\ medicationLogs'[k].status = "TAKEN"
            /\ medicationLogs'[k].taken_at = clock
     /\ \A k \in LogIds :
          (obs[k].ackd /\ last'.op = "trigger") =>
            /\ obs'[k].reminders = obs[k].reminders
            /\ obs'[k].notices = obs[k].notices
            /\ medicationLogs'[k] = medicationLogs[k]]_vars

\* C10: a 'taken' action leaves the stored retryCount as it was.
C10_TakenKeepsRetryCount ==
  [][\A k \in LogIds :
       (last'.op = "taken" /\ last'.log = k) =>
         medicationLogs'[k].retry_count = medicationLogs[k].retry_count]_vars

----------------------------------------------------------------------------
(* Properties of the linked breakfast doses *)

\* the schedule row of record k
scheduleOf(k) == schedules[getScheduleById(schedules, medicationLogs[k].schedule_id)]

\* record k belongs to a slot that links to a prerequisite slot
Dependent(k) ==
  /\ scheduleOf(k).is_second_dose
  /\ scheduleOf(k).linked_schedule_id # Null

\* the prerequisite's record of the same day, or Null
prerequisiteLog(k) ==
  getMedicationLogByScheduleAndDate(medicationLogs,
    scheduleOf(k).linked_schedule_id, medicationLogs[k].date)

PrerequisiteTaken(k) ==
  /\ prerequisiteLog(k) # Null
  /\ medicationLogs[prerequisiteLog(k)].status = "TAKEN"

EngineOps == {"trigger", "resume", "resumeFailed", "resumeNotice"}

\* C6: while the prerequisite's record of the day is absent or not TAKEN, no
\* engine step dispatches a reminder for the dependent record or moves it
\* out of PENDING.
C6_PrerequisiteGating ==
  [][\A k \in LogIds :
       (Dependent(k) /\ ~PrerequisiteTaken(k)) =>
         /\ obs'[k].reminders = obs[k].reminders
         /\ (last'.op \in EngineOps /\ medicationLogs[k].status = "PENDING")
              => medicationLogs'[k].status = "PENDING"]_vars

\* C7: a reminder for the dependent record is dispatched no earlier than the
\* link delay after the prerequisite's record was marked TAKEN.
C7_PrerequisiteDelay ==
  [][\A k \in LogIds :
       (/\ Dependent(k)
        /\ PrerequisiteTaken(k)
        /\ obs'[k].reminders > obs[k].reminders) =>
         clock >= medicationLogs[prerequisiteLog(k)].taken_at
                    + scheduleOf(k).link_delay_minutes]_vars

----------------------------------------------------------------------------
(* Properties of snooze, cooldown and dispatch failure *)

\* the minutes between two reminders of a record (README: 30 分鐘後再次提醒)
Cooldown == 30

\* C11: a 'snooze' on a PENDING or SNOOZED record stores the previous stored
\* retryCount plus one and the action time as lastRemindedAt.
C11_SnoozeIncrementsStored ==
  [][\A k \in LogIds :
       (/\ last'.op = "snooze"
        /\ last'.log = k
        /\ medicationLogs[k].status \in {"PENDING", "SNOOZED"}) =>
         /\ medicationLogs'[k].retry_count = medicationLogs[k].retry_count + 1
         /\ medicationLogs'[k].last_reminded_at = clock]_vars

\* C12: two reminders the engine dispatches for one record are at least the
\* cooldown apart.
C12_CooldownRespected ==
  [][\A k \in LogIds :
       (obs'[k].reminders > obs[k].reminders /\ obs[k].sentAt # Null) =>
         clock - obs[k].sentAt >= Cooldown]_vars

\* a record reminded at 13:00 and again at 13:30
C12_Witness ==
  \E k \in LogIds :
    /\ obs[k].reminders = 2
    /\ obs[k].sentAt = DayMinutes + 810
    /\ InFlight(k)

\* C13: after a 'snooze' at time t the engine dispatches no reminder for the
\* record before t + 30 minutes.
C13_NoReminderWithinSnooze ==
  [][\A k \in LogIds :
       (obs'[k].reminders > obs[k].reminders /\ obs[k].snoozedAt # Null) =>
         clock - obs[k].snoozedAt >= Cooldown]_vars

\* C20: when the dispatch of a reminder fails, the engine still writes SNOOZED,
\* the read retryCount plus one and the time, sends nothing else to that user
\* and does not dispatch again in the same run.
C20_DispatchFailureCommits ==
  [][last'.op = "resumeFailed" =>
       LET k == last'.log
       IN /\ medicationLogs'[k].status = "SNOOZED"
          /\ medicationLogs'[k].retry_count = eng.retryCount + 1
          /\ medicationLogs'[k].last_reminded_at = clock
          /\ buttons' = buttons
          /\ \A j \in LogIds :
               medicationLogs[j].user_id = medicationLogs[k].user_id =>
                 /\ obs'[j].reminders = obs[j].reminders
                 /\ obs'[j].notices = obs[j].notices]_vars

\* the second reminder of a record failed and the record was written back
C20_Witness ==
  /\ last.op = "resumeFailed"
  /\ last.log \in LogIds
  /\ medicationLogs[last.log].status = "SNOOZED"
  /\ medicationLogs[last.log].retry_count = 2
  /\ obs[last.log].reminders = 2
  /\ eng.pc = "idle"

----------------------------------------------------------------------------
(* Properties of record creation *)

\* the records of logs with the key (scheduleId, date)
recordsOf(logs, scheduleId, date) ==
  {k \in 1..Len(logs) : logs[k].schedule_id = scheduleId /\ logs[k].date = date}

\* the records a step appended to the store
Created == (Len(medicationLogs) + 1)..Len(medicationLogs')

\* C14: a run of initDailySchedule leaves every existing record unchanged,
\* creates a record only for a (schedule, today) pair that had none, leaves
\* every schedule with exactly one record of today, and a further run
\* changes nothing in the store.
C14_IdempotentInit ==
  [][last'.op = "init" =>
       LET today == getTaiwanDateString(clock)
       IN /\ Len(medicationLogs') >= Len(medicationLogs)
          /\ SubSeq(medicationLogs', 1, Len(medicationLogs)) = medicationLogs
          /\ \A k \in Created :
               /\ medicationLogs'[k].date = today
               /\ medicationLogs'[k].status = "PENDING"
               /\ recordsOf(medicationLogs, medicationLogs'[k].schedule_id, today) = {}
          /\ \A s \in 1..Len(schedules) :
               Cardinality(recordsOf(medicationLogs', schedules[s].id, today)) = 1
          /\ createMissingLogs(medicationLogs', visitOrder(users, schedules, 1),
                               today) = medicationLogs'
          /\ users' = users
          /\ schedules' = schedules]_vars

\* the initializer ran over a store that holds records of two days, one of
\* them already changed by the engine or the user
C14_Witness ==
  /\ last.op = "init"
  /\ \E j, k \in LogIds :
       /\ medicationLogs[j].date # medicationLogs[k].date
       /\ medicationLogs[k].status # "PENDING"

\* C16: the store holds at most one record for a (schedule id, date) pair.
C16_RecordUniqueness ==
  \A j, k \in LogIds :
    (/\ medicationLogs[j].schedule_id = medicationLogs[k].schedule_id
     /\ medicationLogs[j].date = medicationLogs[k].date) => j = k

\* one schedule has a record for each of two days
C16_Witness ==
  \E j, k \in LogIds :
    /\ medicationLogs[j].schedule_id = medicationLogs[k].schedule_id
    /\ medicationLogs[j].date < medicationLogs[k].date

\* C17: a record is created with the Asia/Taipei calendar day of the moment
\* of its creation.
C17_CreatedForTaipeiToday ==
  [][\A k \in Created :
       medicationLogs'[k].date = getTaiwanDateString(clock)]_vars

\* C19: the engine sends the exceeded notice before it stores MISSED: while
\* the notice is awaited the record is not MISSED yet.
C19_NoticeBeforeMissed ==
  (eng.pc = "awaitNotice") => medicationLogs[eng.logId].status # "MISSED"

----------------------------------------------------------------------------
(* Properties of user setup and first contact *)

\* the schedule rows of the user with store id userId
slotsOf(ss, userId) == {s \in 1..Len(ss) : ss[s].user_id = userId}

C18_FirstContactSeeds ==
  [][(last'.op \in {"taken", "snooze"} /\ Len(users') > Len(users)) =>
       LET user == users'[Len(users')]
           today == getTaiwanDateString(clock)
           mine == slotsOf(schedules', user.id)
       IN /\ Len(users') = Len(users) + 1
          /\ Cardinality(mine) = 4
          /\ \A s \in mine :
               Cardinality(recordsOf(medicationLogs', schedules'[s].id, today)) = 1]_vars

----------------------------------------------------------------------------
(* Properties of the retry counter and of the end of the day *)

\* the engine has evaluated record k at every trigger of its slot
AllTriggersFired(k) ==
  obs[k].evals = Cardinality(CronTimes(scheduleOf(k).meal_type))

\* record k has been TAKEN or MISSED at some moment: takenAt is never
\* cleared, and MISSED is only ever stored together with an exceeded notice
Resolved(k) == medicationLogs[k].taken_at # Null \/ obs[k].notices >= 1

\* C22: when all triggers of the slot have fired, a record that received a
\* reminder has reached TAKEN or MISSED, whatever 'snooze' actions came in
\* between.
C22_EventualResolution ==
  \A k \in LogIds :
    (/\ eng.pc = "idle"
     /\ AllTriggersFired(k)
     /\ obs[k].reminders >= 1) => Resolved(k)

\* C24: a trigger that evaluates a PENDING or SNOOZED record with stored
\* retryCount r < 3 dispatches exactly one reminder carrying r, and when the
\* dispatch returns the record is SNOOZED with retryCount r + 1, the time as
\* lastRemindedAt and takenAt as it was.
C24_EngineReminderStep ==
  [][/\ last'.op = "trigger" =>
          \A k \in LogIds :
            (/\ obs'[k].evals > obs[k].evals
             /\ medicationLogs[k].status \in {"PENDING", "SNOOZED"}
             /\ medicationLogs[k].retry_count < MaxRetry) =>
              /\ eng'.pc = "awaitReminder"
              /\ eng'.logId = k
              /\ eng'.retryCount = medicationLogs[k].retry_count
              /\ obs'[k].reminders = obs[k].reminders + 1
              /\ obs'[k].notices = obs[k].notices
     /\ last'.op \in {"resume", "resumeFailed"} =>
          LET k == last'.log
          IN /\ k = eng.logId
             /\ medicationLogs'[k].status = "SNOOZED"
             /\ medicationLogs'[k].retry_count = eng.retryCount + 1
             /\ medicationLogs'[k].last_reminded_at = clock
             /\ medicationLogs'[k].taken_at = medicationLogs[k].taken_at
             /\ obs'[k].reminders = obs[k].reminders
             /\ last'.op = "resume" =>
                  [to |-> users[eng.i].line_user_id,
                   scheduleId |-> medicationLogs[k].schedule_id,
                   retryCount |-> eng.retryCount] \in buttons']_vars

\* the third reminder of a record was delivered and written back
C24_Witness ==
  /\ last.op = "resume"
  /\ last.log \in LogIds
  /\ last.reported = 2
  /\ medicationLogs[last.log].status = "SNOOZED"
  /\ medicationLogs[last.log].retry_count = MaxRetry

\* C25: a 'snooze' on a PENDING or SNOOZED record leaves it SNOOZED, also
\* when the resulting retryCount is 3.
C25_SnoozeNeverMisses ==
  [][\A k \in LogIds :
       (/\ last'.op = "snooze"
        /\ last'.log = k
        /\ medicationLogs[k].status \in {"PENDING", "SNOOZED"}) =>
         medicationLogs'[k].status = "SNOOZED"]_vars

\* C26: the exceeded notice is sent at most once per record.
C26_NoticeAtMostOnce ==
  \A k \in LogIds : obs[k].notices <= 1

\* C29: every record has 0 <= retryCount <= 3, and every delivered reminder
\* carries a count of at most 2.
C29_BoundedCounter ==
  /\ \A k \in LogIds : medicationLogs[k].retry_count \in 0..MaxRetry
  /\ \A b \in buttons : b.retryCount \in 0..(MaxRetry - 1)

\* a record whose third reminder was snoozed: the handler stored 3
C29_Witness ==
  /\ last.op = "snooze"
  /\ last.reported = MaxRetry - 1
  /\ last.log \in LogIds
  /\ medicationLogs[last.log].retry_count = MaxRetry

\* the engine has evaluated record k at all triggers of its slot but one
OneTriggerMissed(k) ==
  obs[k].evals = Cardinality(CronTimes(scheduleOf(k).meal_type)) - 1

\* C23: a record without user action whose slot missed one trigger has still
\* received its three reminders and is MISSED once the slot's last trigger
\* is over.
C23_SelfCorrection ==
  \A k \in LogIds :
    (/\ eng.pc = "idle"
     /\ ~obs[k].acted
     /\ OneTriggerMissed(k)
     /\ \A m \in CronTimes(scheduleOf(k).meal_type) :
          clock > medicationLogs[k].date * DayMinutes + m) =>
      /\ obs[k].reminders = MaxRetry
      /\ medicationLogs[k].status = "MISSED"

----------------------------------------------------------------------------
(* Properties of ownership *)

\* the step is the handler's run for the press of button b
PressOf(b) ==
  LET r == postbackResult(b.to, last'.op, b.scheduleId, b.retryCount)
  IN /\ users' = r.users
     /\ schedules' = r.schedules
     /\ medicationLogs' = r.logs
     /\ last'.log = r.log
     /\ last'.reported = b.retryCount

\* C28: a 'taken' or 'snooze' sent by a user changes only records that this
\* user owns.
C28_Ownership ==
  [][last'.op \in {"taken", "snooze"} =>
       \A b \in buttons :
         PressOf(b) =>
           \A k \in LogIds :
             medicationLogs'[k] # medicationLogs[k] =>
               medicationLogs[k].user_id =
                 users'[getUserByLineId(users', b.to)].id]_vars

----------------------------------------------------------------------------
(* Properties of a trigger that loops over several users *)

\* the meal type of the engine run that takes the step
runMealType ==
  IF eng.pc = "idle" THEN CHOOSE m \in fired' \ fired : TRUE ELSE eng.mealType

\* the users whose iterations the step runs through without an await
passedUsers ==
  (IF eng.pc = "idle" THEN 1 ELSE eng.i + 1) ..
    (IF eng'.pc = "idle" THEN Len(users) ELSE eng'.i - 1)

\* C21: an engine step, also the one after a failed dispatch, passes no user
\* whose record of the slot and the day is PENDING or SNOOZED: it goes on to
\* the next such user and initiates that user's reminder in the same run,
\* and the record whose dispatch returned is SNOOZED with its count raised.
C21_FailureIsolation ==
  [][last'.op \in EngineOps =>
       /\ \A i \in passedUsers :
            LET k == logOfUser(users, schedules, medicationLogs', runMealType,
                               getTaiwanDateString(clock), i)
            IN k # Null => medicationLogs'[k].status \in {"TAKEN", "MISSED"}
       /\ eng'.pc = "awaitReminder" =>
            /\ eng'.logId = logOfUser(users, schedules, medicationLogs',
                                      runMealType, getTaiwanDateString(clock),
                                      eng'.i)
            /\ obs'[eng'.logId].reminders = obs[eng'.logId].reminders + 1
       /\ last'.op \in {"resume", "resumeFailed"} =>
            /\ medicationLogs'[eng.logId].status = "SNOOZED"
            /\ medicationLogs'[eng.logId].retry_count = eng.retryCount + 1]_vars

\* a run has ended in which the dispatch for the first user failed and the
\* second user received the reminder
C21_Witness ==
  /\ eng.pc = "idle"
  /\ last.op = "resume"
  /\ buttons # {}
  /\ Len(users) = 2
  /\ \A b \in buttons : b.to = users[2].line_user_id
  /\ \A i \in 1..2 :
       LET k == logOfUser(users, schedules, medicationLogs, Lunch,
                          getTaiwanDateString(clock), i)
       IN /\ k # Null
          /\ obs[k].reminders = 1
          /\ obs[k].sentAt = clock
          /\ medicationLogs[k].status = "SNOOZED"

\* C30: when the engine initiates the dispatch of a reminder for a record,
\* the record is stored as PENDING or SNOOZED at that moment.
C30_DispatchOnlyForOpenRecord ==
  [][\A k \in LogIds :
       obs'[k].reminders > obs[k].reminders =>
         medicationLogs'[k].status \in {"PENDING", "SNOOZED"}]_vars

\* 'taken' for the second user's record was handled while the engine awaited
\* the dispatch for the first user in the same run
C30_Witness ==
  /\ eng.pc = "awaitReminder"
  /\ eng.i = 1
  /\ Len(users) = 2
  /\ last.op = "taken"
  /\ last.log = logOfUser(users, schedules, medicationLogs, eng.mealType,
                          eng.today, 2)
  /\ last.log # Null
  /\ medicationLogs[last.log].status = "TAKEN"

----------------------------------------------------------------------------
(* Properties of the two scheduling strategies *)

\* one evaluation of a record by sendReminderForMealType, the dispatch
\* delivered and no user action
cronEvaluate(rec) ==
  IF skipsStatus(rec.status) THEN rec
  ELSE IF exceedsMaxRetry(rec.retry_count)
       THEN [rec EXCEPT !.status = "MISSED", !.notices = @ + 1]
       ELSE [rec EXCEPT !.status = "SNOOZED",
                        !.retry_count = newRetryCount(@),
                        !.reminders = @ + 1]

RECURSIVE cronDay(_, _)
cronDay(rec, n) == IF n = 0 THEN rec ELSE cronDay(cronEvaluate(rec), n - 1)

\* what the cron-per-slot engine leaves of a fresh record after the day's
\* triggers of its slot
cronOutcome(mealType) ==
  cronDay([status |-> "PENDING", retry_count |-> 0,
           reminders |-> 0, notices |-> 0],
          Cardinality(CronTimes(mealType)))

\* the same four observations of record k in the current state
observed(k) ==
  [status |-> medicationLogs[k].status,
   retry_count |-> medicationLogs[k].retry_count,
   reminders |-> obs[k].reminders, notices |-> obs[k].notices]

\* every cron trigger of the slot of record k lies in the past
SlotOver(k) ==
  \A m \in CronTimes(scheduleOf(k).meal_type) :
    clock > medicationLogs[k].date * DayMinutes + m

\* C27: with no user action, a record that the tick-based engine reminded at
\* its slot time ends the day with the number of reminders and notices, the
\* status and the retryCount that the cron-per-slot engine leaves.
C27_EnginesEquivalent ==
  \A k \in LogIds :
    (/\ eng.pc = "idle"
     /\ LegacyDue \subseteq fired
     /\ ~obs[k].acted
     /\ obs[k].reminders >= 1
     /\ SlotOver(k)) => observed(k) = cronOutcome(scheduleOf(k).meal_type)

====
